---- MODULE Spec2Model ----
(***************************************************************************)
(* Model of the conversation store (src/src/store/store.ts): the Store     *)
(* class folds conversation events into per-conversation aggregates and    *)
(* exposes them through getConversations.                                  *)
(*                                                                         *)
(* Optional values (undefined event fields, the null assignedUser) are     *)
(* modelled as sequences: <<>> is absent, <<v>> is the value v.  Strings   *)
(* are TLA+ strings, so slicing and the composite event id are computed    *)
(* character by character as the program computes them.  A JavaScript Map  *)
(* whose iteration order is observable (conversations) is a sequence; the  *)
(* other maps are functions over their current key sets; a Set whose       *)
(* iteration order is observable (the typing users) is a duplicate-free    *)
(* sequence.                                                               *)
(***************************************************************************)
EXTENDS Integers, Sequences, FiniteSets, TLC

VARIABLES conversations, lastBody, uniqueEvents, typingUsers, accepted, delivered,
          rolledBack, sortedConversations

vars == <<conversations, lastBody, uniqueEvents, typingUsers, accepted, delivered,
          rolledBack, sortedConversations>>

-----------------------------------------------------------------------------
(* Bounds of the model *)

\* timestamps of the primary conversation are 1..MaxTs
MaxTs == 3
\* timestamps of the secondary conversation are 1..MaxTsOther
MaxTsOther == 1
\* timestamps of the events of the delivery history are 1..MaxTsDelivery
MaxTsDelivery == 2
\* timestamps of the messages and typing events are 1..MaxTsTyping
MaxTsTyping == 4
\* timestamps of the events of the rollback history are -1 and 1..MaxTsKeys
MaxTsKeys == 2
\* timestamps of the assignment events are 1..MaxTsAssign
MaxTsAssign == 3
\* timestamps of the events between the getConversations calls are
\* 1..MaxTsRead
MaxTsRead == 2
\* timestamps of the events of the two conversations are 1..MaxTsIsolation
MaxTsIsolation == 2
\* timestamps of the events that carry subjects are 1..MaxTsSubject
MaxTsSubject == 3
\* timestamps of the events that are mixed with direct calls of the typing
\* methods are 1..MaxTsCalls
MaxTsCalls == 2

(* Program constants *)

\* body?.slice(0, 256)
BlurbMax == 256

-----------------------------------------------------------------------------
(* Optional values and JavaScript truthiness *)

None == <<>>
Some(v) == <<v>>
Has(o) == o /= None
Val(o) == o[1]

\* a string is truthy when it is present and not ""
TruthyStr(o) == Has(o) /\ Val(o) /= ""
\* a number is truthy when it is present and not 0
TruthyNum(o) == Has(o) /\ Val(o) /= 0

\* x || y on an optional string: x when truthy, else y
OrStr(o, d) == IF TruthyStr(o) THEN Val(o) ELSE d

\* String.prototype.slice(0, n)
Slice(s, n) == IF Len(s) <= n THEN s ELSE SubSeq(s, 1, n)

-----------------------------------------------------------------------------
(* Maps *)

EmptyMap == <<>>
MapHas(m, k) == k \in DOMAIN m
\* mutant: one value shared by every key of the map
MapSet_EveryKey(m, k, v) == [x \in (DOMAIN m) \cup {k} |-> v]
MapSet(m, k, v) == [x \in (DOMAIN m) \cup {k} |-> IF x = k THEN v ELSE m[x]]
MapDelete(m, k) == [x \in (DOMAIN m) \ {k} |-> m[x]]

-----------------------------------------------------------------------------
(* Types of utils.types *)

EventType ==
  [MessageReceived |-> "messageReceived",
   Assigned |-> "assigned",
   Unassigned |-> "unassigned",
   TypingStarted |-> "typingStarted",
   TypingStopped |-> "typingStopped"]

EventTypeKeys ==
  {EventType.MessageReceived, EventType.Assigned, EventType.Unassigned,
   EventType.TypingStarted, EventType.TypingStopped}

defaultConversation ==
  [assignedUser |-> None,
   subject |-> "",
   blurb |-> "",
   messageCount |-> 0,
   lastUpdatedTimestamp |-> 0]

\* { id: conversationId, ...defaultConversation }
NewConversation(conversationId) ==
  [id |-> conversationId,
   assignedUser |-> defaultConversation.assignedUser,
   subject |-> defaultConversation.subject,
   blurb |-> defaultConversation.blurb,
   messageCount |-> defaultConversation.messageCount,
   lastUpdatedTimestamp |-> defaultConversation.lastUpdatedTimestamp]

blackListedUsers == <<"John_Doe">>

-----------------------------------------------------------------------------
(* The conversations map: a sequence of Conversation records in insertion  *)
(* order, at most one per id.                                              *)

ConvIndex(convs, conversationId) ==
  IF \E i \in 1..Len(convs) : convs[i].id = conversationId
  THEN CHOOSE i \in 1..Len(convs) : convs[i].id = conversationId
  ELSE 0

ConvHas(convs, conversationId) == ConvIndex(convs, conversationId) /= 0

ConvGet(convs, conversationId) == convs[ConvIndex(convs, conversationId)]

\* Map.set: a new key is appended, an existing key keeps its position
ConvSet(convs, conv) ==
  IF ConvHas(convs, conv.id)
  THEN [convs EXCEPT ![ConvIndex(convs, conv.id)] = conv]
  ELSE Append(convs, conv)

\* Map.delete
ConvDelete(convs, conversationId) ==
  LET i == ConvIndex(convs, conversationId)
  IN  IF i = 0 THEN convs
      ELSE SubSeq(convs, 1, i - 1) \o SubSeq(convs, i + 1, Len(convs))

-----------------------------------------------------------------------------
(* The Store: its four private collections as one record                   *)

NewStore ==
  [conversations |-> <<>>,
   lastBody |-> EmptyMap,
   uniqueEvents |-> {},
   typingUsers |-> EmptyMap]

\* Array.prototype.join(', ')
RECURSIVE Join(_)
Join(users) ==
  IF Len(users) = 0 THEN ""
  ELSE IF Len(users) = 1 THEN users[1]
  ELSE users[1] \o ", " \o Join(Tail(users))

\* the phrase built in getBlurbForTypingUsers and again in deleteBlurbForTypingUsers
TypingPhrase(users) ==
  IF Len(users) = 1 THEN users[1] \o " is replying..."
  ELSE IF Len(users) > 1 THEN Join(users) \o " are replying..."
  ELSE ""

\* Array.from(this.typingUsers.get(conversationId) || [])
TypingList(typing, conversationId) ==
  IF MapHas(typing, conversationId) THEN typing[conversationId] ELSE <<>>

getBlurbForTypingUsers(typing, conversationId) ==
  TypingPhrase(TypingList(typing, conversationId))

\* mutant: a user is added again when the set already holds him
SetAdd_Again(users, user) == Append(users, user)

\* Set.prototype.add: insertion order, no duplicates
SetAdd(users, user) ==
  IF \E i \in 1..Len(users) : users[i] = user THEN users ELSE Append(users, user)

\* Set.prototype.delete
SetDelete(users, user) == SelectSeq(users, LAMBDA u : u /= user)

\* returns the typing map after the call and the blurb the call returns
addAndgetBlurbForTypingUsers(typing, conversationId, user) ==
  LET typingUser == TypingList(typing, conversationId)
      typing2 == IF TruthyStr(user)
                 THEN MapSet(typing, conversationId, SetAdd(typingUser, Val(user)))
                 ELSE typing
  IN  [typingUsers |-> typing2,
       blurb |-> getBlurbForTypingUsers(typing2, conversationId)]

\* mutant: the entry of a set that became empty is kept
deleteBlurbForTypingUsers_KeepEntry(typing, bodies, conversationId, user) ==
  IF MapHas(typing, conversationId)
  THEN LET found == typing[conversationId]
           found2 == IF TruthyStr(user) THEN SetDelete(found, Val(user)) ELSE found
       IN  [typingUsers |-> MapSet(typing, conversationId, found2),
            blurb |-> IF Len(found2) = 0 THEN "" ELSE TypingPhrase(found2)]
  ELSE [typingUsers |-> typing, blurb |-> ""]

\* returns the typing map after the call and the blurb the call returns
deleteBlurbForTypingUsers(typing, bodies, conversationId, user) ==
  IF MapHas(typing, conversationId)
  THEN LET found == typing[conversationId]
           found2 == IF TruthyStr(user) THEN SetDelete(found, Val(user)) ELSE found
       IN  IF Len(found2) = 0
           THEN [typingUsers |-> MapDelete(typing, conversationId),
                 blurb |-> IF MapHas(bodies, conversationId) /\ bodies[conversationId] /= ""
                           THEN bodies[conversationId] ELSE ""]
           ELSE [typingUsers |-> MapSet(typing, conversationId, found2),
                 blurb |-> TypingPhrase(found2)]
  ELSE [typingUsers |-> typing, blurb |-> ""]

\* every field of defaultConversation equals its default
IsDefaultShape(conversation) ==
  /\ conversation.assignedUser = defaultConversation.assignedUser
  /\ conversation.subject = defaultConversation.subject
  /\ conversation.blurb = defaultConversation.blurb
  /\ conversation.messageCount = defaultConversation.messageCount
  /\ conversation.lastUpdatedTimestamp = defaultConversation.lastUpdatedTimestamp

\* mutant: the entry is removed whatever it holds
isConversationEmptyThenRemove_Always(convs, conversationId) ==
  [conversations |-> ConvDelete(convs, conversationId), result |-> TRUE]

\* mutant: no entry is ever removed
isConversationEmptyThenRemove_Keep(convs, conversationId) ==
  [conversations |-> convs, result |-> FALSE]

\* returns the conversations map after the call and the boolean the call returns
isConversationEmptyThenRemove(convs, conversationId) ==
  IF ~ConvHas(convs, conversationId)
  THEN [conversations |-> convs, result |-> TRUE]
  ELSE LET isEmpty == IsDefaultShape(ConvGet(convs, conversationId))
       IN  [conversations |-> IF isEmpty THEN ConvDelete(convs, conversationId) ELSE convs,
            result |-> isEmpty]

\* `${conversationId}-${timestamp}`
EventId(conversationId, timestamp) == conversationId \o "-" \o ToString(timestamp)

-----------------------------------------------------------------------------
(* handleEvent *)

\* mutant: only an absent timestamp is missing, 0 is not
MissingTimestamp_AbsentOnly(event) == ~Has(event.timestamp)

\* if (!timestamp)
MissingTimestamp(event) == ~TruthyNum(event.timestamp)

\* if (!conversationId)
MissingConversationId(event) == ~TruthyStr(event.conversationId)

\* mutant: the ordering check is left out
IsStale_Never(convs, conversationId, timestamp) == FALSE

\* mutant: the comparison of the ordering check is turned around
IsStale_Inverted(convs, conversationId, timestamp) ==
  /\ ConvHas(convs, conversationId)
  /\ ConvGet(convs, conversationId).id = conversationId
  /\ ConvGet(convs, conversationId).lastUpdatedTimestamp < timestamp

\* conversation && conversation.id === conversationId
\*   && conversation.lastUpdatedTimestamp > timestamp
IsStale(convs, conversationId, timestamp) ==
  /\ ConvHas(convs, conversationId)
  /\ ConvGet(convs, conversationId).id = conversationId
  /\ ConvGet(convs, conversationId).lastUpdatedTimestamp > timestamp

\* mutant: the duplicate check is left out
AlreadyProcessed_Never(events, eventId) == FALSE

\* this.uniqueEvents.has(eventId)
AlreadyProcessed(events, eventId) == eventId \in events

\* mutant: a message does not look at the typing users
NobodyTyping_Always(typing, conversationId) == TRUE

\* !this.typingUsers.has(conversationId) || this.typingUsers.get(conversationId)?.size === 0
NobodyTyping(typing, conversationId) ==
  \/ ~MapHas(typing, conversationId)
  \/ Len(typing[conversationId]) = 0

\* body?.slice(0, 256) || conversation.blurb
MessageBlurb(body, blurb) ==
  IF Has(body) /\ Slice(Val(body), BlurbMax) /= "" THEN Slice(Val(body), BlurbMax) ELSE blurb

\* mutant: a message is not counted
MessageReceived_NoCount(S, conversation, event) ==
  LET conversationId == Val(event.conversationId)
      c1 == [conversation EXCEPT !.subject = OrStr(event.subject, conversation.subject)]
  IN  IF NobodyTyping(S.typingUsers, conversationId)
      THEN [store |-> S,
            conversation |-> [c1 EXCEPT !.blurb = MessageBlurb(event.body, c1.blurb)]]
      ELSE [store |-> [S EXCEPT !.lastBody =
                         MapSet(S.lastBody, conversationId, OrStr(event.body, ""))],
            conversation |-> c1]

\* case EventType.MessageReceived: the store and the conversation after the case
MessageReceived(S, conversation, event) ==
  LET conversationId == Val(event.conversationId)
      c1 == [conversation EXCEPT !.subject = OrStr(event.subject, conversation.subject),
                                 !.messageCount = conversation.messageCount + 1]
  IN  IF NobodyTyping(S.typingUsers, conversationId)
      THEN [store |-> S,
            conversation |-> [c1 EXCEPT !.blurb = MessageBlurb(event.body, c1.blurb)]]
      ELSE [store |-> [S EXCEPT !.lastBody =
                         MapSet(S.lastBody, conversationId, OrStr(event.body, ""))],
            conversation |-> c1]

\* case EventType.Assigned
Assigned(S, conversation, event) ==
  [store |-> S,
   conversation |-> [conversation EXCEPT !.assignedUser =
                       IF TruthyStr(event.user) THEN Some(Val(event.user)) ELSE None]]

\* case EventType.Unassigned
Unassigned(S, conversation, event) ==
  [store |-> S, conversation |-> [conversation EXCEPT !.assignedUser = None]]

\* case EventType.TypingStarted
TypingStarted(S, conversation, event) ==
  LET r == addAndgetBlurbForTypingUsers(S.typingUsers, Val(event.conversationId), event.user)
  IN  [store |-> [S EXCEPT !.typingUsers = r.typingUsers],
       conversation |-> [conversation EXCEPT !.blurb = r.blurb]]

\* case EventType.TypingStopped
TypingStopped(S, conversation, event) ==
  LET r == deleteBlurbForTypingUsers(S.typingUsers, S.lastBody,
                                     Val(event.conversationId), event.user)
  IN  [store |-> [S EXCEPT !.typingUsers = r.typingUsers],
       conversation |-> [conversation EXCEPT !.blurb = r.blurb]]

\* the switch over the five known kinds
Dispatch(S, conversation, event) ==
  CASE event.type = EventType.MessageReceived -> MessageReceived(S, conversation, event)
    [] event.type = EventType.Assigned -> Assigned(S, conversation, event)
    [] event.type = EventType.Unassigned -> Unassigned(S, conversation, event)
    [] event.type = EventType.TypingStarted -> TypingStarted(S, conversation, event)
    [] event.type = EventType.TypingStopped -> TypingStopped(S, conversation, event)

\* mutant: the default case returns without the rollback
UnknownType_NoRollback(S, eventId, conversationId) == S

\* default: the rollback of the registration and of the lazily created entry
UnknownType(S, eventId, conversationId) ==
  [S EXCEPT !.uniqueEvents = S.uniqueEvents \ {eventId},
            !.conversations =
               isConversationEmptyThenRemove(S.conversations, conversationId).conversations]

\* mutant: the event id is not recorded
Register_NoAdd(S, eventId, conversationId) ==
  [S EXCEPT !.conversations =
               IF ConvHas(S.conversations, conversationId) THEN S.conversations
               ELSE ConvSet(S.conversations, NewConversation(conversationId))]

\* this.uniqueEvents.add(eventId), then the lazy creation of the entry
Register(S, eventId, conversationId) ==
  [S EXCEPT !.uniqueEvents = S.uniqueEvents \cup {eventId},
            !.conversations =
               IF ConvHas(S.conversations, conversationId) THEN S.conversations
               ELSE ConvSet(S.conversations, NewConversation(conversationId))]

\* mutant: the timestamp of the event is not stored
Stamp_Skip(S, conversation, timestamp) ==
  [S EXCEPT !.conversations = ConvSet(S.conversations, conversation)]

\* conversation.lastUpdatedTimestamp = timestamp, on the entry held by the map
Stamp(S, conversation, timestamp) ==
  [S EXCEPT !.conversations =
      ConvSet(S.conversations, [conversation EXCEPT !.lastUpdatedTimestamp = timestamp])]

\* The whole handler: the store after the call, the path the call took and
\* what it wrote to the console.
handleEvent(S, event) ==
  IF MissingTimestamp(event)
  THEN [store |-> S, outcome |-> "missingTimestamp",
        console |-> <<<<"warn", "Event is missing a timestamp:">>>>]
  ELSE IF MissingConversationId(event)
  THEN [store |-> S, outcome |-> "missingConversationId",
        console |-> <<<<"warn", "Event is missing a conversationId:">>>>]
  ELSE
    LET timestamp == Val(event.timestamp)
        conversationId == Val(event.conversationId)
        eventId == EventId(conversationId, timestamp)
    IN  IF IsStale(S.conversations, conversationId, timestamp)
        THEN [store |-> S, outcome |-> "stale", console |-> <<>>]
        ELSE IF AlreadyProcessed(S.uniqueEvents, eventId)
        THEN [store |-> S, outcome |-> "duplicate",
              console |-> <<<<"log", "Event already processed:", eventId>>>>]
        ELSE
          LET S1 == Register(S, eventId, conversationId)
              conversation == ConvGet(S1.conversations, conversationId)
          IN  IF event.type \in EventTypeKeys
              THEN LET d == Dispatch(S1, conversation, event)
                   IN  [store |-> Stamp(d.store, d.conversation, timestamp),
                        outcome |-> "accepted", console |-> <<>>]
              ELSE [store |-> UnknownType(S1, eventId, conversationId),
                    outcome |-> "unknown",
                    console |-> <<<<"warn", "Unknown event type:", event.type>>>>]

-----------------------------------------------------------------------------
(* getConversations *)

\* mutant: the filter lets every conversation through
NotBlackListed_Always(conversation) == TRUE

\* !blackListedUsers.includes(conversation.assignedUser || '')
NotBlackListed(conversation) ==
  LET name == OrStr(conversation.assignedUser, "")
  IN  ~\E i \in 1..Len(blackListedUsers) : blackListedUsers[i] = name

\* one step of a stable sort with the comparator
\* b.lastUpdatedTimestamp - a.lastUpdatedTimestamp: conv goes after every
\* entry that is not older than it
RECURSIVE InsertSorted(_, _)
InsertSorted(sorted, conv) ==
  IF Len(sorted) = 0 THEN <<conv>>
  ELSE IF Head(sorted).lastUpdatedTimestamp >= conv.lastUpdatedTimestamp
       THEN <<Head(sorted)>> \o InsertSorted(Tail(sorted), conv)
       ELSE <<conv>> \o sorted

\* mutant: the filtered array is returned in the order of the map
SortDescending_Unsorted(convs) == convs

RECURSIVE SortDescending(_)
SortDescending(convs) ==
  IF Len(convs) = 0 THEN <<>>
  ELSE InsertSorted(SortDescending(SubSeq(convs, 1, Len(convs) - 1)), convs[Len(convs)])

getConversations(convs) == SortDescending(SelectSeq(convs, NotBlackListed))

\* mutant: the filter and the sort work on the map itself
getConversationsCall_InPlace(S) ==
  [store |-> [S EXCEPT !.conversations = getConversations(S.conversations)],
   result |-> getConversations(S.conversations)]

\* the whole method: the store after the call and the array the call
\* returns; Array.from, filter and sort work on arrays of their own
getConversationsCall(S) ==
  [store |-> S, result |-> getConversations(S.conversations)]

-----------------------------------------------------------------------------
(* The events the environment delivers *)

Event(type, timestamp, conversationId, user, subject, body) ==
  [type |-> type, timestamp |-> timestamp, conversationId |-> conversationId,
   user |-> user, subject |-> subject, body |-> body]

\* String.prototype.repeat, by halving
RECURSIVE Repeat(_, _)
Repeat(s, n) ==
  IF n = 0 THEN ""
  ELSE LET half == Repeat(s, n \div 2)
       IN  half \o half \o (IF n % 2 = 1 THEN s ELSE "")

\* a body one character longer than the blurb may be
LongBody == Repeat("x", BlurbMax) \o "y"

Conv1 == "c"
Conv2 == "c-"

\* the events of every known kind for one conversation
KnownEventsOf(conversationId, timestamps) ==
  LET c == Some(conversationId)
  IN  UNION {
        { Event(EventType.MessageReceived, Some(t), c, None, Some("s1"), Some("hi")),
          Event(EventType.Assigned, Some(t), c, Some("John_Doe"), None, None),
          Event(EventType.Assigned, Some(t), c, Some("u1"), None, None),
          Event(EventType.Unassigned, Some(t), c, None, None, None),
          Event(EventType.TypingStarted, Some(t), c, Some("u1"), None, None),
          Event(EventType.TypingStopped, Some(t), c, Some("u1"), None, None) }
        : t \in timestamps }

\* the second conversation receives the events that make it visible and
\* hidden
OtherEventsOf(conversationId, timestamps) ==
  LET c == Some(conversationId)
  IN  UNION {
        { Event(EventType.MessageReceived, Some(t), c, None, Some("s1"), Some("hi")),
          Event(EventType.Assigned, Some(t), c, Some("John_Doe"), None, None) }
        : t \in timestamps }

\* messages and typing events of one conversation: bodies that are short,
\* longer than the blurb may be, empty and absent; typing events of two users
\* and without a user
TypingEventsOf(conversationId, timestamps) ==
  LET c == Some(conversationId)
  IN  UNION {
        { Event(EventType.MessageReceived, Some(t), c, None, Some("s1"), Some("hi")),
          Event(EventType.MessageReceived, Some(t), c, None, None, Some(LongBody)),
          Event(EventType.MessageReceived, Some(t), c, None, None, Some("")),
          Event(EventType.MessageReceived, Some(t), c, None, Some("s2"), None),
          Event(EventType.TypingStarted, Some(t), c, Some("u1"), None, None),
          Event(EventType.TypingStarted, Some(t), c, Some("u2"), None, None),
          Event(EventType.TypingStarted, Some(t), c, None, None, None),
          Event(EventType.TypingStopped, Some(t), c, Some("u1"), None, None),
          Event(EventType.TypingStopped, Some(t), c, None, None, None) }
        : t \in timestamps }

UnknownEvents ==
  {Event("bogus", Some(t), Some(Conv1), Some("u1"), Some("s1"), Some("hi")) : t \in 1..MaxTs}
  \cup {Event("bogus", Some(t), Some(Conv2), None, None, None) : t \in 1..MaxTsOther}

MalformedEvents ==
  { Event(EventType.MessageReceived, None, Some(Conv1), None, Some("s1"), Some("hi")),
    Event(EventType.TypingStarted, Some(0), Some(Conv1), Some("u1"), None, None),
    Event(EventType.Assigned, Some(1), None, Some("u1"), None, None),
    Event(EventType.MessageReceived, Some(1), Some(""), None, Some("s1"), Some("hi")) }

Events ==
  KnownEventsOf(Conv1, 1..MaxTs) \cup OtherEventsOf(Conv2, 1..MaxTsOther)
  \cup UnknownEvents \cup MalformedEvents

\* the events of the specification that records every delivery
DeliveryEvents ==
  LET c == Some(Conv1)
  IN  UNION {
        { Event(EventType.MessageReceived, Some(t), c, None, Some("s1"), Some("hi")),
          Event(EventType.TypingStarted, Some(t), c, Some("u1"), None, None),
          Event(EventType.TypingStopped, Some(t), c, Some("u1"), None, None),
          Event("bogus", Some(t), c, None, None, None) }
        : t \in 1..MaxTsDelivery }
      \cup {Event(EventType.MessageReceived, None, c, None, Some("s1"), Some("hi")),
            Event(EventType.MessageReceived, Some(1), Some(Conv2), None, Some("s1"), Some("hi"))}

TypingEvents == TypingEventsOf(Conv1, 1..MaxTsTyping)

\* the events of the specification of the assignment: assigned with a user,
\* with the empty string as user and without a user, unassigned with and
\* without a user, and a message and the typing events that give the other
\* fields a value
AssignEvents ==
  LET c == Some(Conv1)
  IN  UNION {
        { Event(EventType.Assigned, Some(t), c, Some("u1"), None, None),
          Event(EventType.Assigned, Some(t), c, Some(""), None, None),
          Event(EventType.Assigned, Some(t), c, None, None, None),
          Event(EventType.Unassigned, Some(t), c, Some("u1"), None, None),
          Event(EventType.Unassigned, Some(t), c, None, None, None),
          Event(EventType.MessageReceived, Some(t), c, None, Some("s1"), Some("hi")),
          Event(EventType.TypingStarted, Some(t), c, Some("u2"), None, None) }
        : t \in 1..MaxTsAssign }

\* the events between the getConversations calls: for the first
\* conversation the events that hide it and show it again and a
\* typingStarted, for the second a message
ReadEvents ==
  UNION {
    { Event(EventType.Assigned, Some(t), Some(Conv1), Some("John_Doe"), None, None),
      Event(EventType.Unassigned, Some(t), Some(Conv1), None, None, None),
      Event(EventType.TypingStarted, Some(t), Some(Conv1), Some("u1"), None, None),
      Event(EventType.MessageReceived, Some(t), Some(Conv2), None, Some("s1"), Some("hi")) }
    : t \in 1..MaxTsRead }

\* the events of the specification of the subject: messages with two
\* subjects, with the empty string as subject and without a subject, an
\* assignment and an event of an unknown kind that carries a subject
SubjectEvents ==
  LET c == Some(Conv1)
  IN  UNION {
        { Event(EventType.MessageReceived, Some(t), c, None, Some("s1"), Some("hi")),
          Event(EventType.MessageReceived, Some(t), c, None, Some("s2"), None),
          Event(EventType.MessageReceived, Some(t), c, None, Some(""), Some("hi")),
          Event(EventType.MessageReceived, Some(t), c, None, None, Some("hi")),
          Event(EventType.Assigned, Some(t), c, Some("u1"), Some("s2"), None),
          Event("bogus", Some(t), c, None, Some("s2"), None) }
        : t \in 1..MaxTsSubject }

\* the events of the specification that mixes handleEvent with direct calls
\* of the typing methods: a message and the typing events of one user and
\* of no user
CallEvents ==
  LET c == Some(Conv1)
  IN  UNION {
        { Event(EventType.MessageReceived, Some(t), c, None, Some("s1"), Some("hi")),
          Event(EventType.TypingStarted, Some(t), c, Some("u1"), None, None),
          Event(EventType.TypingStarted, Some(t), c, None, None, None),
          Event(EventType.TypingStopped, Some(t), c, Some("u1"), None, None),
          Event(EventType.TypingStopped, Some(t), c, None, None, None) }
        : t \in 1..MaxTsCalls }

\* the arguments of the direct calls: a user the events name, one they do
\* not name, no user and the empty string
CallIds == {Conv1, Conv2}
CallUsers == {Some("u1"), Some("u2"), None, Some("")}

\* the events of the specification that records the rollbacks: a message, an
\* assignment and an event of an unknown kind for each of two conversations
\* whose ids differ in a trailing '-', with a negative timestamp among the
\* timestamps
KeyEventsOf(conversationId, timestamps) ==
  LET c == Some(conversationId)
  IN  UNION {
        { Event(EventType.MessageReceived, Some(t), c, None, Some("s1"), Some("hi")),
          Event(EventType.Assigned, Some(t), c, Some("u1"), None, None),
          Event("bogus", Some(t), c, None, None, None) }
        : t \in timestamps }

KeyEvents ==
  KeyEventsOf(Conv1, {-1} \cup 1..MaxTsKeys) \cup KeyEventsOf(Conv2, {-1} \cup 1..MaxTsKeys)

\* the events of the specification of the two conversations: each receives
\* a message, an assignment, the typing events of a user and an event of an
\* unknown kind; the user, the subject and the body are those of the
\* conversation
IsolationEventsOf(conversationId, user, subject, body) ==
  LET c == Some(conversationId)
  IN  UNION {
        { Event(EventType.MessageReceived, Some(t), c, None, Some(subject), Some(body)),
          Event(EventType.Assigned, Some(t), c, Some(user), None, None),
          Event(EventType.TypingStarted, Some(t), c, Some(user), None, None),
          Event(EventType.TypingStopped, Some(t), c, Some(user), None, None),
          Event("bogus", Some(t), c, None, None, None) }
        : t \in 1..MaxTsIsolation }

IsolationEvents ==
  IsolationEventsOf(Conv1, "u1", "s1", "hi") \cup IsolationEventsOf(Conv2, "u2", "s2", "hello")

-----------------------------------------------------------------------------
(* The state machine: a new Store, then one handleEvent call per step.     *)
(* accepted is the history of the events that reached the dispatch of a    *)
(* known kind, each with whether somebody was typing in its conversation   *)
(* when it arrived.  delivered is the history of every event handed to     *)
(* handleEvent; only the specification SpecDelivery records it.            *)
(* rolledBack is the history of the (conversationId, timestamp) pairs of   *)
(* the events that reached the default case of the switch and whose        *)
(* conversation has accepted no event with that or a later timestamp       *)
(* since; only the specification SpecKeys records it.                      *)
(* sortedConversations is the array the last getConversations call        *)
(* returned; only the specification SpecRead calls getConversations.       *)

Store == [conversations |-> conversations, lastBody |-> lastBody,
          uniqueEvents |-> uniqueEvents, typingUsers |-> typingUsers]

Init ==
  /\ conversations = NewStore.conversations
  /\ lastBody = NewStore.lastBody
  /\ uniqueEvents = NewStore.uniqueEvents
  /\ typingUsers = NewStore.typingUsers
  /\ accepted = {}
  /\ delivered = {}
  /\ rolledBack = {}
  /\ sortedConversations = <<>>

\* the typing set of the conversation holds a user
SomeoneTyping(typing, conversationId) ==
  /\ conversationId \in DOMAIN typing
  /\ Len(typing[conversationId]) > 0

Accept(event) ==
  [event |-> event, typing |-> SomeoneTyping(typingUsers, Val(event.conversationId))]

Call(event) ==
  \E r \in {handleEvent(Store, event)} :
      /\ conversations' = r.store.conversations
      /\ lastBody' = r.store.lastBody
      /\ uniqueEvents' = r.store.uniqueEvents
      /\ typingUsers' = r.store.typingUsers
      /\ accepted' = IF r.outcome = "accepted" THEN accepted \cup {Accept(event)}
                     ELSE accepted

HandleEvent(event) ==
  Call(event) /\ UNCHANGED <<delivered, rolledBack, sortedConversations>>

Deliver(event) ==
  /\ Call(event)
  /\ delivered' = delivered \cup {event}
  /\ UNCHANGED <<rolledBack, sortedConversations>>

\* the pairs still rolled back after a call with the given outcome
RolledBackAfter(event, outcome) ==
  IF outcome = "unknown"
  THEN rolledBack \cup {[conversationId |-> Val(event.conversationId),
                         timestamp |-> Val(event.timestamp)]}
  ELSE IF outcome = "accepted"
  THEN {k \in rolledBack : ~( /\ k.conversationId = Val(event.conversationId)
                              /\ Val(event.timestamp) >= k.timestamp )}
  ELSE rolledBack

Handle(event) ==
  /\ Call(event)
  /\ rolledBack' = RolledBackAfter(event, handleEvent(Store, event).outcome)
  /\ UNCHANGED <<delivered, sortedConversations>>

Next == \E event \in Events : HandleEvent(event)

Spec == Init /\ [][Next]_vars

NextTyping == \E event \in TypingEvents : HandleEvent(event)

SpecTyping == Init /\ [][NextTyping]_vars

NextDelivery == \E event \in DeliveryEvents : Deliver(event)

SpecDelivery == Init /\ [][NextDelivery]_vars

\* a direct call of the public method addAndgetBlurbForTypingUsers
CallAddAndgetBlurbForTypingUsers(conversationId, user) ==
  /\ typingUsers' = addAndgetBlurbForTypingUsers(typingUsers, conversationId, user).typingUsers
  /\ UNCHANGED <<conversations, lastBody, uniqueEvents, accepted, delivered, rolledBack,
               sortedConversations>>

\* a direct call of the public method deleteBlurbForTypingUsers
CallDeleteBlurbForTypingUsers(conversationId, user) ==
  /\ typingUsers' =
       deleteBlurbForTypingUsers(typingUsers, lastBody, conversationId, user).typingUsers
  /\ UNCHANGED <<conversations, lastBody, uniqueEvents, accepted, delivered, rolledBack,
               sortedConversations>>

NextCalls ==
  \/ \E event \in CallEvents : HandleEvent(event)
  \/ \E conversationId \in CallIds : \E user \in CallUsers :
       CallAddAndgetBlurbForTypingUsers(conversationId, user)
  \/ \E conversationId \in CallIds : \E user \in CallUsers :
       CallDeleteBlurbForTypingUsers(conversationId, user)

SpecCalls == Init /\ [][NextCalls]_vars

NextAssign == \E event \in AssignEvents : HandleEvent(event)

SpecAssign == Init /\ [][NextAssign]_vars

\* a getConversations call
GetConversations ==
  \E r \in {getConversationsCall(Store)} :
      /\ conversations' = r.store.conversations
      /\ lastBody' = r.store.lastBody
      /\ uniqueEvents' = r.store.uniqueEvents
      /\ typingUsers' = r.store.typingUsers
      /\ sortedConversations' = r.result
      /\ UNCHANGED <<accepted, delivered, rolledBack>>

NextRead ==
  \/ \E event \in ReadEvents : HandleEvent(event)
  \/ GetConversations

SpecRead == Init /\ [][NextRead]_vars

NextSubject == \E event \in SubjectEvents : HandleEvent(event)

SpecSubject == Init /\ [][NextSubject]_vars

NextKeys == \E event \in KeyEvents : Handle(event)

SpecKeys == Init /\ [][NextKeys]_vars

NextIsolation == \E event \in IsolationEvents : HandleEvent(event)

SpecIsolation == Init /\ [][NextIsolation]_vars

-----------------------------------------------------------------------------
(* Replaying a set of events on a new Store *)

RECURSIVE Replay(_, _)
Replay(S, events) ==
  IF Len(events) = 0 THEN S
  ELSE Replay(handleEvent(S, Head(events)).store, Tail(events))

\* the events of a set, each once, in ascending timestamp order
RECURSIVE SortByTimestamp(_)
SortByTimestamp(events) ==
  IF events = {} THEN <<>>
  ELSE LET first == CHOOSE e \in events :
                      \A f \in events : Val(e.timestamp) <= Val(f.timestamp)
       IN  <<first>> \o SortByTimestamp(events \ {first})

Entries(convs) == {convs[i] : i \in 1..Len(convs)}

AcceptedEvents == {a.event : a \in accepted}

KnownDelivered ==
  {e \in delivered : /\ ~MissingTimestamp(e)
                     /\ ~MissingConversationId(e)
                     /\ e.type \in EventTypeKeys}

DistinctKeys(events) ==
  \A e, f \in events :
    (e.conversationId = f.conversationId /\ e.timestamp = f.timestamp) => e = f

SameKey(e, f) ==
  /\ Has(e.conversationId) /\ Has(e.timestamp)
  /\ e.conversationId = f.conversationId
  /\ e.timestamp = f.timestamp

-----------------------------------------------------------------------------
(* C1 *)

\* C1 as stated: whenever the events delivered so far are valid events of
\* known kinds with pairwise distinct (conversationId, timestamp), the entries
\* getConversations returns are those of a new Store to which each delivered
\* event is applied once in ascending timestamp order.
C1_ConvergesToSortedDelivery ==
  (delivered = KnownDelivered /\ DistinctKeys(delivered)) =>
     Entries(getConversations(conversations)) =
       Entries(getConversations(
                 Replay(NewStore, SortByTimestamp(delivered)).conversations))

\* C1 amended: the entries getConversations returns are those of a new Store
\* to which each event that handleEvent accepted (neither older than the
\* conversation's lastUpdatedTimestamp nor carrying a recorded key when it
\* arrived) is applied once in ascending timestamp order; the events discarded
\* on arrival contribute nothing.
C1_ConvergesToSortedAccepted ==
  Entries(getConversations(conversations)) =
    Entries(getConversations(
              Replay(NewStore, SortByTimestamp(AcceptedEvents)).conversations))

\* two events were accepted, a third valid event of a known kind was
\* delivered and discarded, and an event was delivered twice or more
C1_Witness ==
  /\ Cardinality(accepted) >= 2
  /\ KnownDelivered \ AcceptedEvents /= {}
  /\ \E e \in KnownDelivered : IsStale(conversations, Val(e.conversationId), Val(e.timestamp))
  /\ Len(conversations) = 2

-----------------------------------------------------------------------------
(* C2 *)

\* C2: in every reachable state, for every event, a second handleEvent call
\* with the same event leaves the store (conversations, uniqueEvents,
\* typingUsers, lastBody) as the first call left it.
C2_Idempotent ==
  \A e \in Events :
    LET once == handleEvent(Store, e).store
    IN  handleEvent(once, e).store = once

\* a state with accepted events in which a first call of some event changes
\* the store and the second call is discarded as already processed
C2_Witness ==
  /\ accepted /= {}
  /\ \E e \in Events :
       LET first == handleEvent(Store, e)
       IN  /\ first.outcome = "accepted"
           /\ first.store /= Store
           /\ handleEvent(first.store, e).outcome = "duplicate"

-----------------------------------------------------------------------------
(* C3 *)

\* C3: in every reachable state, an event that carries the conversationId
\* and the timestamp of an event accepted earlier leaves the store unchanged,
\* whatever its kind and payload.
C3_RecordedKeyIsNoOp ==
  \A a \in accepted : \A e \in Events :
    SameKey(e, a.event) => handleEvent(Store, e).store = Store

\* an event of another kind than the accepted one with its key is discarded
\* as already processed
C3_Witness ==
  \E a \in accepted : \E e \in Events :
    /\ SameKey(e, a.event)
    /\ e.type /= a.event.type
    /\ e.type \in EventTypeKeys
    /\ handleEvent(Store, e).outcome = "duplicate"

-----------------------------------------------------------------------------
(* C4 *)

\* the conversation of the event exists with a lastUpdatedTimestamp above the
\* timestamp of the event
OlderThanWatermark(e) ==
  /\ Has(e.conversationId) /\ Has(e.timestamp)
  /\ \E i \in 1..Len(conversations) :
       /\ conversations[i].id = Val(e.conversationId)
       /\ conversations[i].lastUpdatedTimestamp > Val(e.timestamp)

\* C4: in every reachable state, an event of any kind whose conversation
\* exists with a lastUpdatedTimestamp strictly greater than its timestamp
\* changes no conversation, records no key and leaves typingUsers and
\* lastBody unchanged.
C4_StaleIsNoOp ==
  \A e \in Events : OlderThanWatermark(e) => handleEvent(Store, e).store = Store

\* a typingStopped of a typing user whose key is not recorded is older than
\* the watermark and takes the stale path
C4_Witness ==
  \E e \in Events :
    /\ OlderThanWatermark(e)
    /\ e.type = EventType.TypingStopped
    /\ TruthyStr(e.user)
    /\ SomeoneTyping(typingUsers, Val(e.conversationId))
    /\ EventId(Val(e.conversationId), Val(e.timestamp)) \notin uniqueEvents
    /\ handleEvent(Store, e).outcome = "stale"

-----------------------------------------------------------------------------
(* C5 *)

\* C5: across every handleEvent call, the lastUpdatedTimestamp of a
\* conversation that is in the registry before and after the call does not
\* decrease.
C5_WatermarkNeverDecreases ==
  [][\A i \in 1..Len(conversations) :
        ConvHas(conversations', conversations[i].id) =>
          ConvGet(conversations', conversations[i].id).lastUpdatedTimestamp
            >= conversations[i].lastUpdatedTimestamp]_vars

\* a conversation that accepted three events and now discards older ones
C5_Witness ==
  /\ ConvHas(conversations, Conv1)
  /\ ConvGet(conversations, Conv1).lastUpdatedTimestamp = MaxTs
  /\ Cardinality({a \in accepted : a.event.conversationId = Some(Conv1)}) >= 3
  /\ \E e \in Events : OlderThanWatermark(e) /\ handleEvent(Store, e).outcome = "stale"

-----------------------------------------------------------------------------
(* C6 *)

\* the events accepted by the step
NewlyAccepted == accepted' \ accepted

\* the messages accepted so far for the conversation of event e that satisfy P
MessagesOf(e, P(_)) ==
  {m \in accepted : /\ m.event.type = EventType.MessageReceived
                    /\ m.event.conversationId = e.conversationId
                    /\ P(m)}

\* the accepted event with the highest timestamp of a non-empty set
Latest(as) == CHOOSE m \in as : \A n \in as : Val(n.event.timestamp) <= Val(m.event.timestamp)

\* C6: a messageReceived accepted while the typing set of its conversation
\* is non-empty leaves the blurb of the conversation unchanged; after the
\* accepted typingStopped that empties the typing set, the blurb is the body
\* of the most recent message accepted while the set was non-empty.
C6_TypingPrecedence ==
  [][\A a \in NewlyAccepted :
       LET c == Val(a.event.conversationId)
           during == MessagesOf(a.event, LAMBDA m : m.typing)
       IN  /\ (a.event.type = EventType.MessageReceived /\ SomeoneTyping(typingUsers, c)) =>
                /\ ConvHas(conversations, c)
                /\ ConvGet(conversations', c).blurb = ConvGet(conversations, c).blurb
           /\ ( /\ a.event.type = EventType.TypingStopped
                /\ SomeoneTyping(typingUsers, c)
                /\ ~SomeoneTyping(typingUsers', c)
                /\ during /= {} ) =>
                ConvGet(conversations', c).blurb = OrStr(Latest(during).event.body, "")]_vars

\* the last accepted event of the conversation is a typingStopped that
\* emptied the typing set, after a message with a body accepted while a user
\* was typing, and that body is the blurb
C6_Witness ==
  \E m \in accepted : \E s \in accepted :
    /\ m.event.type = EventType.MessageReceived /\ m.typing /\ TruthyStr(m.event.body)
    /\ s.event.type = EventType.TypingStopped /\ s.typing
    /\ s.event.conversationId = Some(Conv1) /\ m.event.conversationId = Some(Conv1)
    /\ Val(s.event.timestamp) > Val(m.event.timestamp)
    /\ ~SomeoneTyping(typingUsers, Conv1)
    /\ ConvGet(conversations, Conv1).lastUpdatedTimestamp = Val(s.event.timestamp)
    /\ ConvGet(conversations, Conv1).blurb = Val(m.event.body)

-----------------------------------------------------------------------------
(* C7 *)

\* C7 as stated: in every reachable state the blurb of every conversation is
\* the typing phrase of its typing set when that set is non-empty, and
\* otherwise the first 256 characters of the body of the most recent accepted
\* message that carried a body, "" if there is none.
C7_BlurbComposition ==
  \A i \in 1..Len(conversations) :
    LET conv == conversations[i]
        withBody == {m \in accepted : /\ m.event.type = EventType.MessageReceived
                                      /\ m.event.conversationId = Some(conv.id)
                                      /\ Has(m.event.body)}
    IN  IF SomeoneTyping(typingUsers, conv.id)
        THEN conv.blurb = TypingPhrase(typingUsers[conv.id])
        ELSE conv.blurb = IF withBody = {} THEN ""
                          ELSE Slice(Val(Latest(withBody).event.body), BlurbMax)

-----------------------------------------------------------------------------
(* C8 *)

\* C8 as stated: in every reachable state the blurb of every conversation has
\* at most 256 characters unless it is the typing phrase of a non-empty typing
\* set.
C8_BlurbLengthBound ==
  \A i \in 1..Len(conversations) :
    LET conv == conversations[i]
    IN  \/ Len(conv.blurb) <= BlurbMax
        \/ /\ SomeoneTyping(typingUsers, conv.id)
           /\ conv.blurb = TypingPhrase(typingUsers[conv.id])

-----------------------------------------------------------------------------
(* C9 *)

\* the blurb getConversations returns for a conversation it lists
ViewHasBlurb(convs, conversationId, blurb) ==
  LET view == getConversations(convs)
  IN  \A i \in 1..Len(view) : view[i].id = conversationId => view[i].blurb = blurb

\* C9 as stated: after an accepted messageReceived that carries a body while
\* no user is typing in its conversation, the blurb is the first 256
\* characters of the body, and getConversations returns that blurb.
C9_Truncation ==
  [][\A a \in NewlyAccepted :
       LET c == Val(a.event.conversationId)
       IN  ( /\ a.event.type = EventType.MessageReceived
             /\ Has(a.event.body)
             /\ ~SomeoneTyping(typingUsers, c) ) =>
             /\ ConvGet(conversations', c).blurb = Slice(Val(a.event.body), BlurbMax)
             /\ ViewHasBlurb(conversations', c, Slice(Val(a.event.body), BlurbMax))]_vars

-----------------------------------------------------------------------------
(* C10 *)

BlackListed(conversation) ==
  /\ Has(conversation.assignedUser)
  /\ \E i \in 1..Len(blackListedUsers) : blackListedUsers[i] = Val(conversation.assignedUser)

Listed(convs, conversationId) ==
  LET view == getConversations(convs)
  IN  \E i \in 1..Len(view) : view[i].id = conversationId

\* C10: before and after every handleEvent call no conversation assigned to a
\* black-listed user is in the result of getConversations; and after an
\* accepted assigned event that names a user who is not black-listed, or an
\* accepted unassigned event, the result contains the conversation.
C10_BlackListFiltering ==
  [][ /\ \A i \in 1..Len(conversations) :
           BlackListed(conversations[i]) => ~Listed(conversations, conversations[i].id)
      /\ \A i \in 1..Len(conversations') :
           BlackListed(conversations'[i]) => ~Listed(conversations', conversations'[i].id)
      /\ \A a \in NewlyAccepted :
           ( \/ /\ a.event.type = EventType.Assigned
                /\ TruthyStr(a.event.user)
                /\ ~BlackListed([assignedUser |-> a.event.user])
             \/ a.event.type = EventType.Unassigned ) =>
             Listed(conversations', Val(a.event.conversationId)) ]_vars

\* one conversation is assigned to John_Doe and not listed, the other was
\* assigned to John_Doe, then accepted an event that takes it from him, and is
\* listed
C10_Witness ==
  /\ ConvHas(conversations, Conv2)
  /\ BlackListed(ConvGet(conversations, Conv2))
  /\ ~Listed(conversations, Conv2)
  /\ \E j \in accepted : \E r \in accepted :
       /\ j.event.conversationId = Some(Conv1) /\ r.event.conversationId = Some(Conv1)
       /\ j.event.type = EventType.Assigned /\ j.event.user = Some("John_Doe")
       /\ r.event.type \in {EventType.Assigned, EventType.Unassigned}
       /\ Val(r.event.timestamp) > Val(j.event.timestamp)
       /\ ConvGet(conversations, Conv1).lastUpdatedTimestamp = Val(r.event.timestamp)
       /\ Listed(conversations, Conv1)

-----------------------------------------------------------------------------
(* C11 *)

\* C11: in every reachable state the result of getConversations holds every
\* registry entry whose assignedUser is not black-listed exactly once, holds
\* nothing else, and of two adjacent entries the earlier one has a
\* lastUpdatedTimestamp greater than or equal to that of the later one.
C11_ReadOrdering ==
  LET view == getConversations(conversations)
  IN  /\ \A i \in 1..Len(conversations) :
           ~BlackListed(conversations[i]) =>
             Cardinality({j \in 1..Len(view) : view[j] = conversations[i]}) = 1
      /\ \A j \in 1..Len(view) :
           /\ ~BlackListed(view[j])
           /\ \E i \in 1..Len(conversations) : conversations[i] = view[j]
      /\ \A j \in 1..(Len(view) - 1) :
           view[j].lastUpdatedTimestamp >= view[j + 1].lastUpdatedTimestamp

\* two conversations are listed and the map holds the older one first, so the
\* result has them in the other order
C11_Witness ==
  /\ Len(conversations) = 2
  /\ Len(getConversations(conversations)) = 2
  /\ conversations[1].lastUpdatedTimestamp < conversations[2].lastUpdatedTimestamp
  /\ getConversations(conversations)[1] = conversations[2]

-----------------------------------------------------------------------------
(* C12 *)

\* C12: in every reachable state, a handleEvent call with an event whose kind
\* is none of the five known kinds leaves conversations (no entry appears for
\* an id without one, no field of an entry changes), uniqueEvents, typingUsers
\* and lastBody as they were before the call.
C12_UnknownKindIsNoOp ==
  \A e \in Events :
    e.type \notin EventTypeKeys =>
      LET after == handleEvent(Store, e).store
      IN  /\ after.conversations = conversations
          /\ after.uniqueEvents = uniqueEvents
          /\ after.typingUsers = typingUsers
          /\ after.lastBody = lastBody

\* an event of an unknown kind for an id without an entry and one for a
\* conversation that has an entry and a typing user both reach the default
\* case of the switch
C12_Witness ==
  \E e \in Events : \E f \in Events :
    /\ handleEvent(Store, e).outcome = "unknown"
    /\ ~ConvHas(conversations, Val(e.conversationId))
    /\ handleEvent(Store, f).outcome = "unknown"
    /\ ConvHas(conversations, Val(f.conversationId))
    /\ SomeoneTyping(typingUsers, Val(f.conversationId))

-----------------------------------------------------------------------------
(* C13 *)

\* the known-kind events that carry the conversationId and timestamp of k
Resends(k) ==
  {e \in KeyEvents : /\ e.type \in EventTypeKeys
                     /\ e.conversationId = Some(k.conversationId)
                     /\ e.timestamp = Some(k.timestamp)}

\* C13 as stated: in every reachable state, for every pair (c, t) of an
\* unknown-kind event that was rolled back and since which c has accepted no
\* event with a timestamp >= t, a known-kind event with conversationId c and
\* timestamp t is accepted and applied: it is not discarded as already
\* processed and it becomes the lastUpdatedTimestamp of the conversation.
C13_ReprocessableAfterRollback ==
  \A k \in rolledBack : \A e \in Resends(k) :
    LET r == handleEvent(Store, e)
    IN  /\ r.outcome = "accepted"
        /\ ConvHas(r.store.conversations, k.conversationId)
        /\ ConvGet(r.store.conversations, k.conversationId).lastUpdatedTimestamp = k.timestamp

-----------------------------------------------------------------------------
(* C14 *)

\* the timestamp is absent or 0, or the conversationId is absent or ""
Malformed(e) ==
  \/ e.timestamp = None \/ e.timestamp = Some(0)
  \/ e.conversationId = None \/ e.conversationId = Some("")

\* C14: in every reachable state, a handleEvent call with an event whose
\* timestamp is absent or 0, or whose conversationId is absent or "", leaves
\* conversations, uniqueEvents, typingUsers and lastBody unchanged, whatever
\* its kind and its other fields.
C14_MalformedIsNoOp ==
  \A e \in Events :
    Malformed(e) =>
      LET after == handleEvent(Store, e).store
      IN  /\ after.conversations = conversations
          /\ after.uniqueEvents = uniqueEvents
          /\ after.typingUsers = typingUsers
          /\ after.lastBody = lastBody

\* with two conversations in the registry and a user typing in one of them,
\* events of three kinds are discarded for a timestamp that is absent, a
\* timestamp that is 0, a conversationId that is absent and a conversationId
\* that is ""
C14_Witness ==
  /\ Len(conversations) = 2
  /\ SomeoneTyping(typingUsers, Conv1)
  /\ \E e \in Events : e.timestamp = None /\ handleEvent(Store, e).outcome = "missingTimestamp"
  /\ \E e \in Events : /\ e.timestamp = Some(0)
                        /\ e.type = EventType.TypingStarted
                        /\ handleEvent(Store, e).outcome = "missingTimestamp"
  /\ \E e \in Events : /\ e.conversationId = None
                        /\ handleEvent(Store, e).outcome = "missingConversationId"
  /\ \E e \in Events : /\ e.conversationId = Some("")
                        /\ handleEvent(Store, e).outcome = "missingConversationId"

-----------------------------------------------------------------------------
(* C15 *)

\* subject "", blurb "", messageCount 0, assignedUser null,
\* lastUpdatedTimestamp 0
InDefaultShape(conv) ==
  /\ conv.subject = "" /\ conv.blurb = "" /\ conv.messageCount = 0
  /\ conv.assignedUser = None /\ conv.lastUpdatedTimestamp = 0

\* C15: in every reachable state, every entry of conversations is the entry
\* of a conversation for which an event of a known kind was accepted, and it
\* is not in the default shape.
C15_RegistryInvariant ==
  \A i \in 1..Len(conversations) :
    /\ \E a \in accepted : /\ a.event.conversationId = Some(conversations[i].id)
                            /\ a.event.type \in EventTypeKeys
    /\ ~InDefaultShape(conversations[i])

\* an event of an unknown kind was handled for a conversation for which no
\* event was accepted, and the registry holds the other conversation only
C15_Witness ==
  /\ \E k \in rolledBack : /\ k.conversationId = Conv2
                            /\ ~ConvHas(conversations, Conv2)
  /\ \A a \in accepted : a.event.conversationId = Some(Conv1)
  /\ ConvHas(conversations, Conv1)
  /\ Len(conversations) = 1

-----------------------------------------------------------------------------
(* C16 *)

\* C16: in every state reached by handleEvent,
\* addAndgetBlurbForTypingUsers and deleteBlurbForTypingUsers calls, every
\* key of typingUsers has a non-empty set of users; a typingStarted event or
\* an addAndgetBlurbForTypingUsers call without a user leaves typingUsers as
\* it is, and a typingStopped event or a deleteBlurbForTypingUsers call that
\* names the only typing user of a conversation removes its key.
C16_TypingMapInvariant ==
  /\ \A c \in DOMAIN typingUsers : Len(typingUsers[c]) > 0
  /\ \A e \in CallEvents :
       LET r == handleEvent(Store, e)
       IN  /\ ( /\ e.type = EventType.TypingStarted
                /\ e.user \in {None, Some("")}
                /\ r.outcome = "accepted" ) =>
                r.store.typingUsers = typingUsers
           /\ ( /\ e.type = EventType.TypingStopped
                /\ Val(e.conversationId) \in DOMAIN typingUsers
                /\ TruthyStr(e.user)
                /\ typingUsers[Val(e.conversationId)] = <<Val(e.user)>>
                /\ r.outcome = "accepted" ) =>
                Val(e.conversationId) \notin DOMAIN r.store.typingUsers
  /\ \A c \in CallIds : \A u \in CallUsers :
       /\ u \in {None, Some("")} =>
            addAndgetBlurbForTypingUsers(typingUsers, c, u).typingUsers = typingUsers
       /\ (c \in DOMAIN typingUsers /\ TruthyStr(u) /\ typingUsers[c] = <<Val(u)>>) =>
            c \notin DOMAIN
              deleteBlurbForTypingUsers(typingUsers, lastBody, c, u).typingUsers

\* a typingStarted that names u1 and one that names no user were accepted
\* for the first conversation, whose only typing user is now u2, whom only a
\* direct call names; the second conversation, for which there are only
\* direct calls, has two typing users
C16_Witness ==
  /\ \E a \in accepted : /\ a.event.type = EventType.TypingStarted
                          /\ a.event.user = Some("u1")
  /\ \E a \in accepted : /\ a.event.type = EventType.TypingStarted
                          /\ a.event.user = None
  /\ Conv1 \in DOMAIN typingUsers /\ typingUsers[Conv1] = <<"u2">>
  /\ Conv2 \in DOMAIN typingUsers /\ Len(typingUsers[Conv2]) = 2

-----------------------------------------------------------------------------
(* C17 *)

\* C17: across every handleEvent call, uniqueEvents after the call contains
\* uniqueEvents before the call, and the event id of every event accepted
\* before the call is still in it: the default case of the switch removes
\* nothing but the event id the same call added.
C17_UniqueEventsOnlyGrows ==
  [][ /\ uniqueEvents \subseteq uniqueEvents'
      /\ \A a \in accepted :
           EventId(Val(a.event.conversationId), Val(a.event.timestamp)) \in uniqueEvents'
    ]_vars

\* after a rollback, with two event ids recorded, an event of an unknown
\* kind whose event id is recorded and whose timestamp is not below the
\* lastUpdatedTimestamp of its conversation is discarded as already processed
C17_Witness ==
  /\ rolledBack /= {}
  /\ Cardinality(uniqueEvents) >= 2
  /\ \E e \in KeyEvents :
       /\ e.type \notin EventTypeKeys
       /\ EventId(Val(e.conversationId), Val(e.timestamp)) \in uniqueEvents
       /\ ~OlderThanWatermark(e)
       /\ handleEvent(Store, e).outcome = "duplicate"

-----------------------------------------------------------------------------
(* C18 *)

\* the messageReceived events among the accepted events acc of conversation id
AcceptedMessages(acc, id) ==
  {a \in acc : /\ a.event.type = EventType.MessageReceived
               /\ a.event.conversationId = Some(id)}

\* every conversation of convs counts the accepted messages of acc, and acc
\* has no message of a conversation that is not in convs
CountsAcceptedMessages(convs, acc) ==
  /\ \A i \in 1..Len(convs) :
       convs[i].messageCount = Cardinality(AcceptedMessages(acc, convs[i].id))
  /\ \A a \in acc : a.event.type = EventType.MessageReceived =>
       \E i \in 1..Len(convs) : Some(convs[i].id) = a.event.conversationId

\* the messageCount of conversation id in convs, 0 when it has no entry
MessageCount(convs, id) ==
  IF \E i \in 1..Len(convs) : convs[i].id = id
  THEN (CHOOSE c \in Entries(convs) : c.id = id).messageCount
  ELSE 0

\* C18: before and after every handleEvent call the messageCount of every
\* conversation is the number of messageReceived events accepted for it; the
\* call raises the messageCount of a conversation by exactly 1 when it
\* accepts a messageReceived event for it and leaves it unchanged otherwise.
C18_MessageCount ==
  [][ /\ CountsAcceptedMessages(conversations, accepted)
      /\ CountsAcceptedMessages(conversations', accepted')
      /\ \A id \in {Conv1, Conv2} :
           MessageCount(conversations', id) =
             MessageCount(conversations, id) +
               (IF \E a \in NewlyAccepted : /\ a.event.type = EventType.MessageReceived
                                            /\ a.event.conversationId = Some(id)
                THEN 1 ELSE 0)
    ]_vars

\* the first conversation accepted two messages and an event of another
\* kind, the second one message, and a message older than the
\* lastUpdatedTimestamp of the first conversation is discarded
C18_Witness ==
  /\ MessageCount(conversations, Conv1) = 2
  /\ MessageCount(conversations, Conv2) = 1
  /\ Cardinality({a \in accepted : a.event.conversationId = Some(Conv1)}) = 3
  /\ \E e \in Events : /\ e.type = EventType.MessageReceived
                        /\ OlderThanWatermark(e)
                        /\ handleEvent(Store, e).outcome = "stale"

-----------------------------------------------------------------------------
(* C19 *)

\* every conversation of convs has the subject of the message of acc with
\* the highest timestamp among its messages that carry a subject, "" when
\* there is none
SubjectOfLatest(convs, acc) ==
  \A i \in 1..Len(convs) :
    LET withSubject == {a \in AcceptedMessages(acc, convs[i].id) : Has(a.event.subject)}
    IN  convs[i].subject = IF withSubject = {} THEN ""
                           ELSE Val(Latest(withSubject).event.subject)

\* C19 as stated: before and after every handleEvent call the subject of
\* every conversation is the subject of the most recent accepted
\* messageReceived event that carried a subject, "" if there is none; and a
\* call that accepts no messageReceived event with a subject leaves the
\* subject of every conversation that was in the registry unchanged.
C19_SubjectRule ==
  [][ /\ SubjectOfLatest(conversations, accepted)
      /\ SubjectOfLatest(conversations', accepted')
      /\ (\A a \in NewlyAccepted :
             ~(a.event.type = EventType.MessageReceived /\ Has(a.event.subject))) =>
           \A i \in 1..Len(conversations) :
             /\ ConvHas(conversations', conversations[i].id)
             /\ ConvGet(conversations', conversations[i].id).subject = conversations[i].subject
    ]_vars

-----------------------------------------------------------------------------
(* C20 *)

\* the pending body stashed for the conversation, "" when there is none
PendingBody(bodies, conversationId) ==
  IF conversationId \in DOMAIN bodies THEN bodies[conversationId] ELSE ""

\* C20 as stated: after an accepted typingStopped event, when the typing
\* set of the conversation is empty (also when it was empty before the
\* event) the blurb is the pending body stashed for the conversation, "" if
\* none was stashed; otherwise the blurb is the typing phrase of the users
\* that remain.
C20_TypingStoppedResult ==
  [][\A a \in NewlyAccepted :
       LET c == Val(a.event.conversationId)
       IN  a.event.type = EventType.TypingStopped =>
             ConvGet(conversations', c).blurb =
               IF SomeoneTyping(typingUsers', c)
               THEN TypingPhrase(typingUsers'[c])
               ELSE PendingBody(lastBody', c)]_vars

-----------------------------------------------------------------------------
(* C21 *)

\* the step leaves subject, blurb and messageCount of conversation c, its
\* typing set and its pending body unchanged
AssignmentFrame(c) ==
  /\ ConvHas(conversations, c) =>
       /\ ConvGet(conversations', c).subject = ConvGet(conversations, c).subject
       /\ ConvGet(conversations', c).blurb = ConvGet(conversations, c).blurb
       /\ ConvGet(conversations', c).messageCount = ConvGet(conversations, c).messageCount
  /\ ~ConvHas(conversations, c) =>
       /\ ConvGet(conversations', c).subject = ""
       /\ ConvGet(conversations', c).blurb = ""
       /\ ConvGet(conversations', c).messageCount = 0
  /\ typingUsers' = typingUsers
  /\ lastBody' = lastBody

\* C21 as stated: after an accepted assigned event assignedUser is the user
\* of the event when the event carries one and null when it carries none;
\* after an accepted unassigned event assignedUser is null whatever user the
\* event carries; both leave subject, blurb, messageCount, the typing set
\* and the pending body unchanged.
C21_AssignmentRule ==
  [][\A a \in NewlyAccepted :
       LET c == Val(a.event.conversationId)
       IN  /\ a.event.type = EventType.Assigned =>
                /\ ConvGet(conversations', c).assignedUser = a.event.user
                /\ AssignmentFrame(c)
           /\ a.event.type = EventType.Unassigned =>
                /\ ConvGet(conversations', c).assignedUser = None
                /\ AssignmentFrame(c)]_vars

-----------------------------------------------------------------------------
(* C22 *)

\* the timestamps of the accepted events of acc of the given kind that name
\* user u in conversation id
TypingTimes(acc, id, type, u) ==
  {Val(a.event.timestamp) : a \in {b \in acc : /\ b.event.type = type
                                                /\ b.event.conversationId = Some(id)
                                                /\ b.event.user = Some(u)}}

Highest(ts) == IF ts = {} THEN 0 ELSE CHOOSE t \in ts : \A s \in ts : s <= t

\* the timestamp of the typingStarted that added u to the typing set he is
\* in: the first one after his last typingStopped; 0 when he is not typing
AddedAt(acc, id, u) ==
  LET since == {t \in TypingTimes(acc, id, EventType.TypingStarted, u) :
                  t > Highest(TypingTimes(acc, id, EventType.TypingStopped, u))}
  IN  IF since = {} THEN 0 ELSE CHOOSE t \in since : \A s \in since : t <= s

\* the users of a set in the order in which they were added
RECURSIVE InOrderAdded(_, _, _)
InOrderAdded(acc, id, us) ==
  IF us = {} THEN <<>>
  ELSE LET first == CHOOSE u \in us : \A v \in us : AddedAt(acc, id, u) <= AddedAt(acc, id, v)
       IN  <<first>> \o InOrderAdded(acc, id, us \ {first})

\* the typing users of conversation id according to the accepted events
TypingByHistory(acc, id) ==
  InOrderAdded(acc, id, {u \in {"u1", "u2"} : AddedAt(acc, id, u) > 0})

\* the phrase of C22 for at most three users
PhraseOf(us) ==
  CASE Len(us) = 0 -> ""
    [] Len(us) = 1 -> us[1] \o " is replying..."
    [] Len(us) = 2 -> us[1] \o ", " \o us[2] \o " are replying..."
    [] Len(us) = 3 -> us[1] \o ", " \o us[2] \o ", " \o us[3] \o " are replying..."

\* C22: in every reachable state the phrase getBlurbForTypingUsers computes
\* for the conversation is "" for no typing user, "<user> is replying..."
\* for one and the users joined by ", " followed by " are replying..." for
\* more, each user once, in the order in which the accepted typingStarted
\* events added them; a typingStarted that is accepted for a user who is in
\* the set changes neither the set nor the phrase.
C22_TypingPhrase ==
  /\ getBlurbForTypingUsers(typingUsers, Conv1) = PhraseOf(TypingByHistory(accepted, Conv1))
  /\ TypingPhrase(<<"u2", "u1", "u3">>) = PhraseOf(<<"u2", "u1", "u3">>)
  /\ \A e \in TypingEvents :
       ( /\ e.type = EventType.TypingStarted
         /\ TruthyStr(e.user)
         /\ AddedAt(accepted, Conv1, Val(e.user)) > 0 ) =>
         LET r == handleEvent(Store, e)
         IN  r.outcome = "accepted" =>
               /\ r.store.typingUsers = typingUsers
               /\ getBlurbForTypingUsers(r.store.typingUsers, Conv1) =
                    getBlurbForTypingUsers(typingUsers, Conv1)
               /\ ConvGet(r.store.conversations, Conv1).blurb =
                    getBlurbForTypingUsers(typingUsers, Conv1)

\* u2 was named by two accepted typingStarted events and u1 by a later one:
\* the set holds u2, then u1, and the blurb is the phrase of the two
C22_Witness ==
  /\ Cardinality(TypingTimes(accepted, Conv1, EventType.TypingStarted, "u2")) = 2
  /\ AddedAt(accepted, Conv1, "u1") > Highest(TypingTimes(accepted, Conv1, EventType.TypingStarted, "u2"))
  /\ typingUsers[Conv1] = <<"u2", "u1">>
  /\ ConvGet(conversations, Conv1).blurb = "u2, u1 are replying..."

-----------------------------------------------------------------------------
(* C23 *)

\* the timestamps of the events of acc accepted for conversation id
AcceptedTimes(acc, id) ==
  {Val(a.event.timestamp) : a \in {b \in acc : b.event.conversationId = Some(id)}}

\* every conversation of convs has the highest timestamp of the events of
\* acc accepted for it
WatermarkIsHighest(convs, acc) ==
  \A i \in 1..Len(convs) :
    /\ AcceptedTimes(acc, convs[i].id) /= {}
    /\ convs[i].lastUpdatedTimestamp \in AcceptedTimes(acc, convs[i].id)
    /\ \A t \in AcceptedTimes(acc, convs[i].id) : t <= convs[i].lastUpdatedTimestamp

\* C23: after a handleEvent call that accepts an event, the
\* lastUpdatedTimestamp of the conversation of the event is the timestamp of
\* the event; before and after every call the lastUpdatedTimestamp of every
\* conversation is the highest timestamp of the events accepted for it.
C23_WatermarkValue ==
  [][ /\ \A a \in NewlyAccepted :
           /\ ConvHas(conversations', Val(a.event.conversationId))
           /\ ConvGet(conversations', Val(a.event.conversationId)).lastUpdatedTimestamp
                = Val(a.event.timestamp)
      /\ WatermarkIsHighest(conversations, accepted)
      /\ WatermarkIsHighest(conversations', accepted')
    ]_vars

\* the first conversation accepted events of three kinds, the last of them
\* a typingStopped with the highest timestamp, which is its
\* lastUpdatedTimestamp, and discards an older event; the second
\* conversation has the timestamp of its one event
C23_Witness ==
  /\ Len(conversations) = 2
  /\ ConvGet(conversations, Conv1).lastUpdatedTimestamp = MaxTs
  /\ Cardinality(AcceptedTimes(accepted, Conv1)) = 3
  /\ Cardinality({a.event.type : a \in {b \in accepted : b.event.conversationId = Some(Conv1)}}) = 3
  /\ \E a \in accepted : /\ a.event.type = EventType.TypingStopped
                          /\ a.event.timestamp = Some(MaxTs)
  /\ ConvGet(conversations, Conv2).lastUpdatedTimestamp = 1

-----------------------------------------------------------------------------
(* C24 *)

\* the event has a timestamp that is not 0 and a conversationId that is not ""
Valid(e) ==
  /\ Has(e.timestamp) /\ Val(e.timestamp) /= 0
  /\ Has(e.conversationId) /\ Val(e.conversationId) /= ""

\* an event with the conversationId and timestamp of e was accepted
KeyRecorded(e) == \E a \in accepted : SameKey(e, a.event)

\* console.log('Event already processed:', eventId) and nothing else
AlreadyProcessedLog(e) ==
  << <<"log", "Event already processed:",
       Val(e.conversationId) \o "-" \o ToString(Val(e.timestamp))>> >>

\* C24 as stated: in every reachable state, a handleEvent call with a valid
\* timestamp and conversationId whose (conversationId, timestamp) was
\* recorded by an accepted event is discarded, and writes the log
\* "Event already processed: <key>" and no warning to the console.
C24_DuplicateDiagnostic ==
  \A e \in KeyEvents :
    (Valid(e) /\ KeyRecorded(e)) =>
      LET r == handleEvent(Store, e)
      IN  r.store = Store /\ r.console = AlreadyProcessedLog(e)

\* C24 amended: such a call is discarded; it writes the log "Event already
\* processed: <key>" and no warning when the timestamp of the event is the
\* lastUpdatedTimestamp of its conversation, and writes nothing at all when
\* the timestamp is lower, the event being discarded for its age before the
\* recorded keys are looked at.
C24_DuplicateDiagnosticUnlessOlder ==
  \A e \in KeyEvents :
    (Valid(e) /\ KeyRecorded(e)) =>
      LET r == handleEvent(Store, e)
          watermark == ConvGet(conversations, Val(e.conversationId)).lastUpdatedTimestamp
      IN  /\ r.store = Store
          /\ ConvHas(conversations, Val(e.conversationId))
          /\ Val(e.timestamp) <= watermark
          /\ Val(e.timestamp) = watermark => r.console = AlreadyProcessedLog(e)
          /\ Val(e.timestamp) < watermark => r.console = <<>>

\* of two events whose keys are recorded, one of another kind than the
\* accepted one is logged as already processed and an older one is
\* discarded without a log
C24_Witness ==
  \E e \in KeyEvents : \E f \in KeyEvents :
    /\ Valid(e) /\ KeyRecorded(e) /\ e \notin AcceptedEvents
    /\ handleEvent(Store, e).console = AlreadyProcessedLog(e)
    /\ Valid(f) /\ KeyRecorded(f)
    /\ f.conversationId = e.conversationId
    /\ handleEvent(Store, f).console = <<>>

-----------------------------------------------------------------------------
(* C25 *)

\* console.warn('Unknown event type:', type) and nothing else
UnknownTypeWarning(e) == << <<"warn", "Unknown event type:", e.type>> >>

\* the five known kinds
KnownKinds ==
  {"messageReceived", "assigned", "unassigned", "typingStarted", "typingStopped"}

\* C25 as stated: in every reachable state, a handleEvent call with a valid
\* timestamp and conversationId and a kind that is none of the five known
\* kinds writes the warning "Unknown event type: <kind>" to the console.
C25_UnknownKindDiagnostic ==
  \A e \in KeyEvents :
    (Valid(e) /\ e.type \notin KnownKinds) =>
      handleEvent(Store, e).console = UnknownTypeWarning(e)

\* C25 amended: such a call writes the warning "Unknown event type: <kind>"
\* when the timestamp of the event is not lower than the
\* lastUpdatedTimestamp of its conversation and its event id is not in
\* uniqueEvents; it writes nothing when the timestamp is lower, and the log
\* "Event already processed: <key>" when the timestamp is not lower and the
\* event id is in uniqueEvents.
C25_UnknownKindDiagnosticWhenAdmitted ==
  \A e \in KeyEvents :
    (Valid(e) /\ e.type \notin KnownKinds) =>
      LET console == handleEvent(Store, e).console
          id == Val(e.conversationId) \o "-" \o ToString(Val(e.timestamp))
      IN  IF OlderThanWatermark(e) THEN console = <<>>
          ELSE IF id \in uniqueEvents THEN console = AlreadyProcessedLog(e)
          ELSE console = UnknownTypeWarning(e)

\* of three events of an unknown kind for one conversation, one is older
\* than the lastUpdatedTimestamp and writes nothing, one has a recorded
\* event id and is logged as already processed, and one is warned about
C25_Witness ==
  \E e \in KeyEvents : \E f \in KeyEvents : \E g \in KeyEvents :
    /\ {e.type, f.type, g.type} \cap KnownKinds = {}
    /\ e.conversationId = f.conversationId /\ f.conversationId = g.conversationId
    /\ handleEvent(Store, e).console = <<>>
    /\ handleEvent(Store, f).console = AlreadyProcessedLog(f)
    /\ handleEvent(Store, g).console = UnknownTypeWarning(g)

-----------------------------------------------------------------------------
(* C26 *)

-----------------------------------------------------------------------------
(* C27 *)

\* C27: in every reachable state, a handleEvent call with an event that an
\* earlier call of the run was made with, whatever that call did with it and
\* whatever calls came after it, returns with conversations, lastBody,
\* uniqueEvents and typingUsers as they were.
C27_LateRedeliveryIsNoOp ==
  \A e \in delivered : handleEvent(Store, e).store = Store

\* a message was accepted and counted, an older message and an event of an
\* unknown kind were delivered and not accepted, an event without timestamp
\* was delivered, and of the delivered events one is now discarded by the
\* ordering check and one as already processed
C27_Witness ==
  /\ \E i \in 1..Len(conversations) : conversations[i].messageCount >= 1
  /\ \E e \in delivered : ~Has(e.timestamp)
  /\ \E e \in delivered : \E f \in delivered : \E g \in delivered :
       /\ e.type = EventType.MessageReceived
       /\ e \in AcceptedEvents
       /\ f.type = EventType.MessageReceived
       /\ f \notin AcceptedEvents
       /\ g.type \notin KnownKinds
       /\ handleEvent(Store, e).outcome = "duplicate"
       /\ handleEvent(Store, f).outcome = "stale"


-----------------------------------------------------------------------------
(* C28 *)

\* C28: in every state a handleEvent call returns in, every conversation
\* of the map whose set of typing users holds a user has as blurb the phrase
\* of that set: the user and " is replying..." for one user, the users joined
\* by ", " and " are replying..." for more.
C28_TypingBlurbInvariant ==
  \A i \in 1..Len(conversations) :
    SomeoneTyping(typingUsers, conversations[i].id) =>
      conversations[i].blurb = PhraseOf(typingUsers[conversations[i].id])

\* while u1 was typing, a message and an assigned were accepted for the
\* conversation; u1 is still typing and the blurb is the phrase, though the
\* conversation holds the body of a message
C28_Witness ==
  /\ \A type \in {EventType.MessageReceived, EventType.Assigned} :
       \E a \in accepted :
         /\ a.event.type = type
         /\ a.event.conversationId = Some(Conv1)
         /\ a.typing
  /\ Has(ConvGet(conversations, Conv1).assignedUser)
  /\ SomeoneTyping(typingUsers, Conv1)
  /\ MapHas(lastBody, Conv1)
  /\ ConvGet(conversations, Conv1).messageCount >= 1
  /\ ConvGet(conversations, Conv1).blurb = "u1 is replying..."


-----------------------------------------------------------------------------
(* C29 *)

\* C29: in every state a handleEvent call returns in, uniqueEvents holds,
\* for every conversation of the map, the event id built from its id and its
\* lastUpdatedTimestamp; a call with an event whose timestamp is the
\* lastUpdatedTimestamp of its conversation is not accepted and leaves the
\* store as it is; and an event that is accepted has a timestamp higher
\* than that of every event accepted for its conversation before.
C29_WatermarkKeyRecorded ==
  /\ \A i \in 1..Len(conversations) :
       EventId(conversations[i].id, conversations[i].lastUpdatedTimestamp) \in uniqueEvents
  /\ \A e \in KeyEvents :
       LET id == Val(e.conversationId)
           r == handleEvent(Store, e)
       IN  /\ ( /\ ConvHas(conversations, id)
                /\ ConvGet(conversations, id).lastUpdatedTimestamp = Val(e.timestamp) ) =>
                  /\ r.outcome /= "accepted"
                  /\ r.store = Store
           /\ r.outcome = "accepted" =>
                \A t \in AcceptedTimes(accepted, id) : t < Val(e.timestamp)

\* the first conversation accepted events with the timestamps -1, 1 and 2,
\* the second one with the timestamps -1 and 2; every event with the
\* timestamp 2 for the first conversation is now discarded as already
\* processed
C29_Witness ==
  /\ AcceptedTimes(accepted, Conv1) = {-1, 1, 2}
  /\ AcceptedTimes(accepted, Conv2) = {-1, 2}
  /\ ConvGet(conversations, Conv1).lastUpdatedTimestamp = 2
  /\ \A e \in KeyEvents :
       (e.conversationId = Some(Conv1) /\ e.timestamp = Some(2)) =>
         handleEvent(Store, e).outcome = "duplicate"


-----------------------------------------------------------------------------
(* C30 *)

\* the ids of the conversations for which an event of acc was accepted
AcceptedIds(acc) == {Val(a.event.conversationId) : a \in acc}

\* C30: in every state a handleEvent call returns in, every conversation
\* id for which an event was accepted by this or an earlier call is a key
\* of the map and the id field of its entry; every entry of the map has a
\* lastUpdatedTimestamp other than 0 and an accepted event; and a call that
\* reaches the default case of the switch returns with the map it was
\* called with, so that the entry it removes, if any, is the one it created.
C30_EntriesPermanent ==
  /\ \A id \in AcceptedIds(accepted) :
       /\ ConvHas(conversations, id)
       /\ ConvGet(conversations, id).id = id
  /\ \A i \in 1..Len(conversations) :
       /\ conversations[i].lastUpdatedTimestamp /= 0
       /\ conversations[i].id \in AcceptedIds(accepted)
  /\ \A e \in Events :
       LET r == handleEvent(Store, e)
       IN  r.outcome = "unknown" =>
             /\ r.store.conversations = conversations
             /\ ConvHas(conversations, Val(e.conversationId)) =>
                  ~isConversationEmptyThenRemove(conversations, Val(e.conversationId)).result

\* the first conversation accepted an event and an event of an unknown
\* kind for it reaches the default case, which keeps the entry; the second
\* conversation is not in the map and an event of an unknown kind for it
\* reaches the default case, which removes the entry the call created
C30_Witness ==
  /\ Conv1 \in AcceptedIds(accepted)
  /\ ~ConvHas(conversations, Conv2)
  /\ \E e \in UnknownEvents : \E f \in UnknownEvents :
       /\ e.conversationId = Some(Conv1)
       /\ f.conversationId = Some(Conv2)
       /\ handleEvent(Store, e).outcome = "unknown"
       /\ handleEvent(Store, f).outcome = "unknown"
       /\ LET created == Register(Store, EventId(Conv2, Val(f.timestamp)), Conv2).conversations
          IN  /\ ConvHas(created, Conv2)
              /\ isConversationEmptyThenRemove(created, Conv2).result


-----------------------------------------------------------------------------
(* C31 *)

\* what the store holds for one conversation id: the entry of the map, the
\* set of typing users and the body kept for the blurb
HeldFor(S, id) ==
  [conversation |-> IF ConvHas(S.conversations, id)
                    THEN Some(ConvGet(S.conversations, id)) ELSE None,
   typingUsers |-> IF MapHas(S.typingUsers, id) THEN Some(S.typingUsers[id]) ELSE None,
   lastBody |-> IF MapHas(S.lastBody, id) THEN Some(S.lastBody[id]) ELSE None]

\* C31: every handleEvent call leaves, for every conversation id other
\* than the conversationId of its event, the entry of the map, the set of
\* typing users and the body kept for the blurb as they were.
C31_CrossConversationIsolation ==
  \A e \in IsolationEvents :
    \A id \in {Conv1, Conv2} \ {Val(e.conversationId)} :
      HeldFor(handleEvent(Store, e).store, id) = HeldFor(Store, id)

\* the second conversation holds a message and a typing user, the first
\* a typing user; a message and a typingStopped for the first conversation
\* are accepted and change what the store holds for it, and an event of an
\* unknown kind for it reaches the default case
C31_Witness ==
  /\ Has(HeldFor(Store, Conv2).conversation)
  /\ HeldFor(Store, Conv2).typingUsers = Some(<<"u2">>)
  /\ HeldFor(Store, Conv2).lastBody = Some("hello")
  /\ Has(HeldFor(Store, Conv1).conversation)
  /\ HeldFor(Store, Conv1).typingUsers = Some(<<"u1">>)
  /\ \E e \in IsolationEvents : \E f \in IsolationEvents : \E g \in IsolationEvents :
       /\ {e.conversationId, f.conversationId, g.conversationId} = {Some(Conv1)}
       /\ e.type = EventType.MessageReceived
       /\ f.type = EventType.TypingStopped
       /\ g.type = "bogus"
       /\ handleEvent(Store, e).outcome = "accepted"
       /\ handleEvent(Store, f).outcome = "accepted"
       /\ handleEvent(Store, g).outcome = "unknown"
       /\ HeldFor(handleEvent(Store, e).store, Conv1) /= HeldFor(Store, Conv1)
       /\ HeldFor(handleEvent(Store, f).store, Conv1) /= HeldFor(Store, Conv1)


-----------------------------------------------------------------------------
(* C32 *)

\* the event id handleEvent builds for the event
EventIdOf(e) == EventId(Val(e.conversationId), Val(e.timestamp))

\* C32: a handleEvent call discards its event as already processed only
\* when an event with the same conversationId and the same timestamp was
\* accepted before, and two events whose event id is the same recorded
\* string have the same conversationId and the same timestamp, also when a
\* conversationId ends with "-" and a timestamp is negative.
C32_DedupKeyInjective ==
  /\ \A e \in KeyEvents :
       handleEvent(Store, e).outcome = "duplicate" =>
         \E a \in accepted :
           /\ a.event.conversationId = e.conversationId
           /\ a.event.timestamp = e.timestamp
  /\ \A e \in KeyEvents : \A f \in KeyEvents :
       (EventIdOf(e) \in uniqueEvents /\ EventIdOf(e) = EventIdOf(f)) =>
         /\ e.conversationId = f.conversationId
         /\ e.timestamp = f.timestamp

====
